---- MODULE Spec2Model ----
(***************************************************************************)
(* particle_compute_shader: the frame driver of src/main.rs (model, update, *)
(* view, main), the wgpu queue it submits to, and the simulate_boids       *)
(* kernel it dispatches over the particle buffer.                          *)
(*                                                                         *)
(* Positions and velocities are fixed-point integers in units of 0.001, so *)
(* the source's ranges [-1.0, 1.0] and [-0.001, 0.001] are -1000..1000 and *)
(* -1..1.  A Particle carries one of its two components: the kernel        *)
(* contract is the same on both axes.                                      *)
(*                                                                         *)
(* The kernel source (shaders/compute_shader.wgsl) is not among the source *)
(* files; KernelUpdate and its helpers follow section 4.3 of the           *)
(* specification.                                                          *)
(***************************************************************************)
EXTENDS Integers, Sequences, FiniteSets, TLC

VARIABLES
    pc,               \* frame driver: the next callback nannou runs
    frame,            \* frames started so far
    particle_count,   \* the count the program is built with
    particle_buffer,  \* GPU storage: index -> Particle
    cmds,             \* every command buffer submitted to the queue, in order
    boundary_policy,  \* kernel configuration: "wrap" or "clamp"
    workgroups_x,     \* update's local workgroups_x, as last computed
    gid               \* dispatch arithmetic: a global invocation id looked at

vars == <<pc, frame, particle_count, boundary_policy, particle_buffer, cmds, workgroups_x, gid>>

---------------------------------------------------------------------------
\* Bounds of the model

\* frames the driver runs
MaxFrames == 2
\* largest store of the frame model (the source's PARTICLE_COUNT is below)
MaxParticles == 2
\* dispatch arithmetic: all counts 1..MaxSmallCount are tried
MaxSmallCount == 600
\* dispatch arithmetic: counts within NearWidth of each landmark are tried
NearWidth == 5

---------------------------------------------------------------------------
\* Program constants

PARTICLE_COUNT == 50000
\* 256.0 of update's workgroup computation
WorkgroupSize == 256
\* random_range(-1.0, 1.0), in units of 0.001
PosRange == 1000
\* random_range(-0.001, 0.001), in units of 0.001
VelRange == 1

\* Kernel configuration (section 6 of the specification), in units of 0.001
PerceptionRadius == 5
SeparationDistance == 1
MaxSpeed == 2

---------------------------------------------------------------------------
\* Arithmetic of update: (PARTICLE_COUNT as f32 / 256.0).ceil() as u32

RECURSIVE Pow2(_)
Pow2(e) == IF e = 0 THEN 1 ELSE 2 * Pow2(e - 1)

RECURSIVE BitLen(_)
BitLen(n) == IF n = 0 THEN 0 ELSE 1 + BitLen(n \div 2)

\* u32 -> f32: exact up to 24 significant bits, else round to nearest, ties to even
AsF32(n) ==
    IF BitLen(n) <= 24 THEN n
    ELSE LET p == Pow2(BitLen(n) - 24)
             q == n \div p
             r == n % p
             up == (2 * r > p) \/ (2 * r = p /\ q % 2 = 1)
         IN  (IF up THEN q + 1 ELSE q) * p

\* f32 / 256.0 is exact (a change of exponent): <<integer part, remainder>>
DivWorkgroupSize(x) == <<x \div WorkgroupSize, x % WorkgroupSize>>

\* f32::ceil
Ceil(qr) == IF qr[2] > 0 THEN qr[1] + 1 ELSE qr[1]

\* as u32 without rounding up: what a truncating cast alone would give
WorkgroupsXTruncated(n) == DivWorkgroupSize(AsF32(n))[1]

WorkgroupsX(n) == Ceil(DivWorkgroupSize(AsF32(n)))

---------------------------------------------------------------------------
\* model(): the particle store

Particle(p, v) == [position |-> p, velocity |-> v]

\* Sampled positions: the ends of a range one step too wide
InitPositionsWide == {-PosRange - 1, PosRange + 1}

\* Sampled positions: the low end and the high end of random_range(-1.0, 1.0)
InitPositions == {-PosRange, PosRange - 1}

\* Sampled velocities: the ends of random_range(-0.001, 0.001)
InitVelocities == {-VelRange, VelRange}

InitParticles == {Particle(p, v) : p \in InitPositions, v \in InitVelocities}

Indices(n) == 0 .. n - 1

NoBuffer == [i \in {} |-> Particle(0, 0)]

---------------------------------------------------------------------------
\* The simulate_boids kernel, one invocation (specification, section 4.3)

Abs(x) == IF x < 0 THEN -x ELSE x
Sign(x) == IF x > 0 THEN 1 ELSE IF x < 0 THEN -1 ELSE 0

RECURSIVE SumOver(_, _, _)
SumOver(S, f, i) ==
    IF S = {} THEN 0
    ELSE LET j == CHOOSE x \in S : TRUE
         IN  f[j] - f[i] + SumOver(S \ {j}, f, i)

Neighbors(seen, i) ==
    {j \in DOMAIN seen \ {i} :
        Abs(seen[j].position - seen[i].position) <= PerceptionRadius}

Clamp(v) == IF v > MaxSpeed THEN MaxSpeed ELSE IF v < -MaxSpeed THEN -MaxSpeed ELSE v

\* toroidal wrap of the domain [-1, 1]
Wrap(p) ==
    IF p > PosRange THEN p - 2 * PosRange
    ELSE IF p < -PosRange THEN p + 2 * PosRange
    ELSE p

\* clamping to the domain [-1, 1]
ClampToDomain(p) ==
    IF p > PosRange THEN PosRange
    ELSE IF p < -PosRange THEN -PosRange
    ELSE p

BoundaryPolicies == {"wrap", "clamp"}

Boundary(p) == IF boundary_policy = "wrap" THEN Wrap(p) ELSE ClampToDomain(p)

KernelUpdate(seen, i) ==
    LET nb   == Neighbors(seen, i)
        near == {j \in nb :
                    Abs(seen[j].position - seen[i].position) < SeparationDistance}
        pos  == [j \in DOMAIN seen |-> seen[j].position]
        vel  == [j \in DOMAIN seen |-> seen[j].velocity]
        cohesion   == Sign(SumOver(nb, pos, i))
        alignment  == Sign(SumOver(nb, vel, i))
        separation == IF near = {} THEN 0
                      ELSE IF i < (CHOOSE j \in near : TRUE) THEN -1 ELSE 1
        v == Clamp(seen[i].velocity + cohesion + alignment + separation)
    IN  Particle(Boundary(seen[i].position + v), v)

---------------------------------------------------------------------------
\* Command buffers

\* bind_group: binding 0 is the whole particle buffer, read_only: false
BindGroup == {"particle_buffer"}

\* a render pass bound to the storage bind group
RenderBindingsWithStorage == BindGroup

\* view sets no bind group, and the render pipeline layout has none
RenderBindings == {}

\* view submitting on the queue of another device
ViewQueueOther == "other_device"

\* frame.device_queue_pair().queue(): the queue of the window the frame is for
ViewQueue == "main_window"

\* app.main_window().queue()
UpdateQueue == "main_window"

\* invocation g belongs to workgroup g / 256; the dispatch has workgroups 0..wg-1
HasUnit(g, wg) == g \div WorkgroupSize < wg

\* invocations of a dispatch that fall inside the store; those past its end have
\* no particle of their own
Units(wg, n) == {g \in Indices(n) : HasUnit(g, wg)}

ComputeCommand(f, n) ==
    [kind |-> "compute", frame |-> f, status |-> "queued", queue |-> UpdateQueue,
     workgroups |-> WorkgroupsX(n), instances |-> 0, bindings |-> BindGroup,
     units |-> [g \in Units(WorkgroupsX(n), n) |-> "ready"],
     seen |-> [g \in Units(WorkgroupsX(n), n) |-> NoBuffer],
     before |-> NoBuffer, after |-> NoBuffer, drawn |-> NoBuffer]

\* draw with one instance too few
DrawInstancesShort(n) == n - 1

\* render_pass.draw(0..3, 0..PARTICLE_COUNT)
DrawInstances(n) == n

RenderCommand(f, n) ==
    [kind |-> "render", frame |-> f, status |-> "queued", queue |-> ViewQueue,
     workgroups |-> 0, instances |-> DrawInstances(n), bindings |-> RenderBindings,
     units |-> [g \in {} |-> "ready"], seen |-> [g \in {} |-> NoBuffer],
     before |-> NoBuffer, after |-> NoBuffer, drawn |-> NoBuffer]

\* a spatial-index build pass, which the source does not have
IndexBuildCommand(f, n) ==
    [ComputeCommand(f, n) EXCEPT !.kind = "build_index",
                                 !.bindings = {"quad_nodes", "particle_buffer"}]

\* update building the index before it simulates
UpdateCommandsWithIndexBuild(f, n) == <<IndexBuildCommand(f, n), ComputeCommand(f, n)>>

\* update finishing its encoder without submitting it
UpdateCommandsNone(f, n) == <<>>

\* update submits the compute pass twice
UpdateCommandsTwice(f, n) == <<ComputeCommand(f, n), ComputeCommand(f, n)>>

\* update: one encoder, one compute pass, one dispatch, one submit
UpdateCommands(f, n) == <<ComputeCommand(f, n)>>

\* view: one encoder, one render pass, one submit
ViewCommands(f, n) == <<RenderCommand(f, n)>>

---------------------------------------------------------------------------
\* The frame driver: nannou::app(model).update(update).run() with view
\* registered on the window

\* nannou calls update, then view, once per frame
FirstCallback == "update"

Init ==
    /\ pc = FirstCallback
    /\ frame = 0
    /\ particle_count \in 1 .. MaxParticles
    /\ boundary_policy \in BoundaryPolicies
    /\ particle_buffer \in [Indices(particle_count) -> InitParticles]
    /\ cmds = <<>>
    /\ workgroups_x = 0
    /\ gid = -1

update ==
    /\ pc = "update"
    /\ frame < MaxFrames
    /\ frame' = frame + 1
    /\ workgroups_x' = WorkgroupsX(particle_count)
    /\ cmds' = cmds \o UpdateCommands(frame + 1, particle_count)
    /\ pc' = "view"
    /\ UNCHANGED <<particle_count, boundary_policy, particle_buffer, gid>>

view ==
    /\ pc = "view"
    /\ cmds' = cmds \o ViewCommands(frame, particle_count)
    /\ pc' = "update"
    /\ UNCHANGED <<frame, particle_count, boundary_policy, particle_buffer, workgroups_x, gid>>

---------------------------------------------------------------------------
\* The queue: queue.submit hands command buffers to the device, which runs
\* them in submission order

\* a device that starts any queued command buffer
CanStartUnordered(k) == TRUE

\* a queue runs its command buffers in submission order, each to completion
CanStart(k) ==
    \A j \in 1 .. k - 1 : cmds[j].queue = cmds[k].queue => cmds[j].status = "done"

GpuStart(k) ==
    /\ cmds[k].status = "queued"
    /\ CanStart(k)
    /\ cmds' = [cmds EXCEPT ![k].status = "running", ![k].before = particle_buffer]
    /\ UNCHANGED <<pc, frame, particle_count, boundary_policy, particle_buffer, workgroups_x, gid>>

\* an invocation reads the store (its own particle and its neighbours')
UnitLoad(k, g) ==
    /\ cmds[k].kind = "compute"
    /\ cmds[k].status = "running"
    /\ cmds[k].units[g] = "ready"
    /\ cmds' = [cmds EXCEPT ![k].units[g] = "loaded", ![k].seen[g] = particle_buffer]
    /\ UNCHANGED <<pc, frame, particle_count, boundary_policy, particle_buffer, workgroups_x, gid>>

\* and writes its own particle back in place
UnitStore(k, g) ==
    /\ cmds[k].kind = "compute"
    /\ cmds[k].status = "running"
    /\ cmds[k].units[g] = "loaded"
    /\ "particle_buffer" \in cmds[k].bindings
    /\ particle_buffer' =
           [particle_buffer EXCEPT ![g] = KernelUpdate(cmds[k].seen[g], g)]
    /\ cmds' = [cmds EXCEPT ![k].units[g] = "done"]
    /\ UNCHANGED <<pc, frame, particle_count, boundary_policy, workgroups_x, gid>>

ComputeFinish(k) ==
    /\ cmds[k].kind = "compute"
    /\ cmds[k].status = "running"
    /\ \A g \in DOMAIN cmds[k].units : cmds[k].units[g] = "done"
    /\ cmds' = [cmds EXCEPT ![k].status = "done", ![k].after = particle_buffer,
                            ![k].seen = [g \in DOMAIN cmds[k].seen |-> NoBuffer]]
    /\ UNCHANGED <<pc, frame, particle_count, boundary_policy, particle_buffer, workgroups_x, gid>>

\* what a render pass may leave in the store: it can write only through a
\* storage binding
RenderWrites(k) ==
    IF "particle_buffer" \in cmds[k].bindings
    THEN [DOMAIN particle_buffer -> InitParticles]
    ELSE {particle_buffer}

\* the render pass fetches instances 0..instances-1 from the vertex buffer
RenderDraw(k) ==
    /\ cmds[k].kind = "render"
    /\ cmds[k].status = "running"
    /\ cmds' = [cmds EXCEPT
                   ![k].status = "done",
                   ![k].drawn = [i \in Indices(cmds[k].instances) \cap DOMAIN particle_buffer
                                    |-> particle_buffer[i]]]
    /\ particle_buffer' \in RenderWrites(k)
    /\ UNCHANGED <<pc, frame, particle_count, boundary_policy, workgroups_x, gid>>

Next ==
    \/ update
    \/ view
    \/ \E k \in 1 .. Len(cmds) : GpuStart(k)
    \/ \E k \in 1 .. Len(cmds) : \E g \in DOMAIN cmds[k].units : UnitLoad(k, g)
    \/ \E k \in 1 .. Len(cmds) : \E g \in DOMAIN cmds[k].units : UnitStore(k, g)
    \/ \E k \in 1 .. Len(cmds) : ComputeFinish(k)
    \/ \E k \in 1 .. Len(cmds) : RenderDraw(k)

Spec == Init /\ [][Next]_vars

---------------------------------------------------------------------------
\* The dispatch size alone, over particle counts up to 2^30

Near(c) == (c - NearWidth) .. (c + NearWidth)

CountSamples ==
    (1 .. MaxSmallCount) \cup Near(PARTICLE_COUNT) \cup Near(Pow2(24))
        \cup Near(Pow2(25)) \cup Near(Pow2(30))

\* the count survives the cast to f32
Representable(n) == AsF32(n) = n

NoUnit == -2

InitDispatch ==
    /\ pc = "update"
    /\ frame = 0
    /\ particle_count \in CountSamples
    /\ boundary_policy = "wrap"
    /\ particle_buffer = NoBuffer
    /\ cmds = <<>>
    /\ workgroups_x = 0
    /\ gid = -1

\* let workgroups_x = (PARTICLE_COUNT as f32 / 256.0).ceil() as u32
DispatchSize ==
    /\ pc = "update"
    /\ workgroups_x' = WorkgroupsX(particle_count)
    /\ pc' = "dispatched"
    /\ UNCHANGED <<frame, particle_count, boundary_policy, particle_buffer, cmds, gid>>

\* dispatch_workgroups(workgroups_x, 1, 1): the invocation of the first or the
\* last particle, if the grid has one
InvokeUnit ==
    /\ pc = "dispatched"
    /\ \E i \in {0, particle_count - 1} :
           gid' = IF HasUnit(i, workgroups_x) THEN i ELSE NoUnit
    /\ UNCHANGED <<pc, frame, particle_count, boundary_policy, particle_buffer, cmds, workgroups_x>>

NextDispatch == DispatchSize \/ InvokeUnit

SpecDispatch == InitDispatch /\ [][NextDispatch]_vars

---------------------------------------------------------------------------
\* Properties

Cmds == 1 .. Len(cmds)
IsCompute(k) == cmds[k].kind = "compute"
IsRender(k) == cmds[k].kind = "render"
Started(k) == cmds[k].status # "queued"
Running(k) == cmds[k].status = "running"
Done(k) == cmds[k].status = "done"
\* a dispatch that has written some of its particles and not yet all of them
MidUpdate(k) ==
    /\ IsCompute(k) /\ Running(k)
    /\ \E g \in DOMAIN cmds[k].units : cmds[k].units[g] = "done"
    /\ \E g \in DOMAIN cmds[k].units : cmds[k].units[g] # "done"

\* C1: every render submission follows the simulation submission of its frame, and
\* what the render pass draws is the store as that frame's dispatch left it when
\* it completed, never a store some invocations of the frame have yet to write.
C1_RenderAfterSimulation ==
    \A k \in Cmds : IsRender(k) =>
        \E j \in 1 .. k - 1 :
            /\ IsCompute(j)
            /\ cmds[j].frame = cmds[k].frame
            /\ Done(k) => (Done(j) /\ cmds[k].drawn = cmds[j].after)

C1_Witness ==
    \E k \in Cmds :
        /\ IsRender(k) /\ Done(k) /\ cmds[k].frame = 2
        /\ particle_count = 2
        /\ cmds[k].drawn # cmds[k - 1].before

\* C2: the store has one writer, the compute pass, and one reader, the render
\* pass; no compute pass runs while a render pass of any frame runs, and no two
\* compute passes run together.
C2_SingleWriterSingleReader ==
    /\ \A k \in Cmds : ("particle_buffer" \in cmds[k].bindings) <=> IsCompute(k)
    /\ \A j, k \in Cmds :
           (IsCompute(j) /\ Running(j) /\ j # k) => ~Running(k)

C2_Witness ==
    \E j, k \in Cmds :
        /\ IsRender(j) /\ Done(j)
        /\ k > j /\ MidUpdate(k)
        /\ Len(cmds) > k

\* C3: in a dispatch, what an invocation reads for any particle is that
\* particle's value from before the dispatch.
C3_ReadsOnlyPriorState ==
    \A k \in Cmds : IsCompute(k) =>
        \A g \in DOMAIN cmds[k].units :
            (Running(k) /\ cmds[k].units[g] # "ready") =>
                \A j \in DOMAIN particle_buffer : cmds[k].seen[g][j] = cmds[k].before[j]

\* C4: the store always holds exactly the configured number of particles, at
\* indices 0..count-1, and every draw covers exactly that many instances.
C4_StoreLengthInvariant ==
    /\ DOMAIN particle_buffer = Indices(particle_count)
    /\ Cardinality(DOMAIN particle_buffer) = particle_count
    /\ \A k \in Cmds :
           /\ IsRender(k) => cmds[k].instances = particle_count
           /\ (IsRender(k) /\ Done(k)) => DOMAIN cmds[k].drawn = DOMAIN particle_buffer
           /\ (IsCompute(k) /\ Done(k)) => DOMAIN cmds[k].after = DOMAIN cmds[k].before

C4_Witness ==
    \E k \in Cmds :
        /\ IsRender(k) /\ Done(k) /\ cmds[k].frame = 2
        /\ Cardinality(DOMAIN cmds[k].drawn) = 2

\* C5: simulation and render submissions alternate, starting with a simulation:
\* exactly one simulation submission before the first render and between any two
\* consecutive renders.
C5_OneSimulationPerFrame ==
    \A k \in Cmds :
        /\ cmds[k].kind = IF k % 2 = 1 THEN "compute" ELSE "render"
        /\ cmds[k].frame = (k + 1) \div 2

C5_Witness ==
    /\ Len(cmds) = 4
    /\ IsRender(2) /\ IsRender(4)
    /\ Cardinality({k \in 2 .. 4 : IsCompute(k)}) = 1

\* C6, as claimed: once update has returned, the dispatch it submitted has
\* completed.
C6_UpdateWaitsForCompletion ==
    pc = "view" =>
        \E k \in Cmds : IsCompute(k) /\ cmds[k].frame = frame /\ Done(k)

\* C6, amended: update returns without waiting, and the device does not begin a
\* later command buffer (the frame's render pass, the next frame's compute pass)
\* until every earlier one, with all of its invocations, has completed.
C6_QueueRunsInOrder ==
    \A k \in Cmds : Started(k) =>
        \A j \in 1 .. k - 1 :
            /\ Done(j)
            /\ \A g \in DOMAIN cmds[j].units : cmds[j].units[g] = "done"

C6_Witness ==
    /\ frame = 2 /\ pc = "update"
    /\ Len(cmds) = 4
    /\ MidUpdate(1)
    /\ \A k \in 2 .. 4 : ~Started(k)

\* C7, as claimed: every simulation dispatch of a frame is preceded by a
\* spatial-index build of that frame.
C7_IndexBuiltBeforeSimulation ==
    \A k \in Cmds : IsCompute(k) =>
        \E j \in 1 .. k - 1 :
            cmds[j].kind = "build_index" /\ cmds[j].frame = cmds[k].frame

\* C7, amended: no spatial index is built in any frame: update submits only the
\* compute pass, whose one binding is the particle buffer; within a frame the
\* render pass does not start before the frame's dispatch has completed.
C7_NoIndexSimulateThenRender ==
    \A k \in Cmds :
        /\ cmds[k].kind \in {"compute", "render"}
        /\ IsCompute(k) => cmds[k].bindings = {"particle_buffer"}
        /\ (IsRender(k) /\ Started(k)) =>
               \E j \in 1 .. k - 1 :
                   IsCompute(j) /\ cmds[j].frame = cmds[k].frame /\ Done(j)

C7_Witness ==
    \E k \in Cmds :
        /\ IsRender(k) /\ Running(k) /\ cmds[k].frame = 2
        /\ cmds[k - 1].after # cmds[k - 1].before

\* C8: a step that changes the store is the write of one invocation of a running
\* compute pass; no step of a render pass (its start, its draw) and no callback
\* changes it.
C8_RenderLeavesStore ==
    [][particle_buffer' # particle_buffer =>
          /\ Len(cmds') = Len(cmds)
          /\ \A k \in Cmds : IsRender(k) => cmds'[k] = cmds[k]
          /\ \E k \in Cmds :
                 /\ IsCompute(k) /\ Running(k)
                 /\ \E g \in DOMAIN cmds[k].units :
                        /\ cmds[k].units[g] = "loaded"
                        /\ cmds'[k].units[g] = "done"
                        /\ \A i \in DOMAIN particle_buffer \ {g} :
                               particle_buffer'[i] = particle_buffer[i]]_vars

C8_Witness ==
    \E k \in Cmds :
        /\ IsRender(k) /\ Done(k) /\ cmds[k].frame = 2
        /\ cmds[k].drawn = particle_buffer
        /\ cmds[k].before = particle_buffer
        /\ cmds[k - 1].before # particle_buffer

====
